---- MODULE Spec2Model ----
(***************************************************************************)
(* Silver price tracker. One behaviour is one page load, of the modular    *)
(* page (SilverGiftApp.loadAndRender with DataManager, APIManager and      *)
(* UIRenderer) or of the legacy single-class page (SilverGiftApp.loadData).*)
(* The environment (query string, static JSON documents, the servers'      *)
(* answers) is drawn from small sets.                                      *)
(***************************************************************************)
EXTENDS Integers, Sequences, FiniteSets, TLC

\* ---------------------------------------------------------------- bounds
MaxApis == 2            \* longest endpoint list served as data/apis.json
MaxHist == 2            \* longest series served as data/daily-prices.json
MaxDays == 800          \* most whole days between the gift date and today
MaxUrlPieces == 3       \* most pieces of an endpoint's URL template
MaxRetriesArg == 3      \* largest `retries` argument of a loadWithFallback call

\* ------------------------------------------------------ program constants
maxRetries == 3         \* DataManager.maxRetries
retryDelay == 500       \* DataManager.retryDelay
apiConfigRetries == 2   \* loadAPIConfig: loadWithFallback('data/apis.json', null, 2)
lastKnownRetries == 2   \* getLastKnownPrice: loadWithFallback(..., [], 2)
maxAttempts == 3        \* tryIndividualAPI
attemptDelay == 500     \* tryIndividualAPI: 500 * attempt
apiPause == 1000        \* tryAllLiveAPIs: pause between two endpoints
MinPrice == 10          \* accepted band of a live price
MaxPrice == 200
legacyMaxRetries == 5   \* legacy SilverGiftApp.maxRetries
legacyRetryDelay == 500 \* legacy SilverGiftApp.retryDelay
legacyLastKnownRetries == 1 \* legacy getLastKnownPrice: loadWithFallback(..., [], 1)
legacyBackoffBase == 1000   \* legacy tryLiveAPI: 1000 * Math.pow(2, attempt)

\* ----------------------------------------------------------------- values
\* A number is an exact rational <<numerator, denominator>> with a
\* denominator >= 0; <<1, 0>> is Infinity (1 / 0).  Null is JavaScript's
\* null or undefined: the absent value.
Null == <<0, 0>>
Rat(n) == <<n, 1>>
Truthy(v) == v # Null /\ v[1] # 0
GreaterEq(v, k) == v # Null /\ v[1] >= k * v[2]
LessEq(v, k) == v # Null /\ v[1] <= k * v[2]
Invert(v) == <<v[2], v[1]>>
\* A JSON string that spells the number n, and typeof v === 'number'.
NumericString(n) == <<n, 1, "string">>
IsNumber(v) == Len(v) = 2

\* ------------------------------------------------------------ environment
\* ?recipient=... of the page's query string; NoId: the parameter is absent.
NoId == "-"
RecipientsFile == {"john"}              \* own keys of data/recipients.json
ObjectPrototypeKeys == {"constructor"}  \* a name every JS object inherits
RecipientIds == {NoId, "john", "ghost", "constructor"}

\* The one query parameter endpoints may name in `authentication`.
AuthName == "apikey"
AuthKeyStates == {"absent", "empty", "value"}

RECURSIVE SeqsUpTo(_, _)
SeqsUpTo(S, n) ==
    IF n = 0 THEN {<< >>}
    ELSE LET shorter == SeqsUpTo(S, n - 1)
         IN  shorter \cup
             {Append(s, e) : s \in {t \in shorter : Len(t) = n - 1}, e \in S}

\* Entries of data/daily-prices.json; source "" is an entry without source.
\* A price outside the band of live prices, no price, and a price written
\* as a string.
HistEntries ==
    { [price |-> Rat(5), source |-> ""],
      [price |-> Null, source |-> ""],
      [price |-> NumericString(30), source |-> "gold-api"] }
HistSeries == SeqsUpTo(HistEntries, MaxHist)
UnreadDaily == [known |-> FALSE, series |-> << >>]

\* Endpoints of data/apis.json.  An endpoint is named after its position in
\* the document, so a name identifies one configured endpoint.
ApiNames == <<"api1", "api2", "api3", "api4">>
Priorities == {1, 2}
Authentications == {"none", AuthName}
\* The endpoint at an even position of the document quotes ounces per
\* dollar, the others dollars per ounce.
RateConversions == <<"none", "invert", "none", "invert">>
Endpoint(k, p, auth) ==
    [name |-> ApiNames[k], priority |-> p,
     authentication |-> auth,
     rate_conversion |-> RateConversions[k]]
ConfigLists ==
    UNION { { [k \in 1..n |-> Endpoint(k, p[k], a[k])] :
                p \in [1..n -> Priorities], a \in [1..n -> Authentications] } :
            n \in 0..MaxApis }
\* The document is an array of endpoints, or some other JSON value.
ApisFiles ==
    {[kind |-> "array", list |-> c] : c \in ConfigLists}
        \cup {[kind |-> "other", list |-> << >>]}
UnreadApis == [kind |-> "null", list |-> << >>]

\* What a server does with one request for a static document.
LoaderDisp == {"ok", "timeout", "neterr", "http", "badjson", "null"}
\* What a price endpoint does with one request: no answer in time, a failure,
\* or a JSON body; of a body only the value at the price path matters.
LiveNumbers ==
    {Rat(0), Rat(9), Rat(10), Rat(200), Rat(201), <<1, 10>>, <<1, 200>>, <<1, 201>>}
ApiAnswers ==
    {[kind |-> k, num |-> Null] : k \in {"neterr", "http", "badjson", "nopath", "nan"}}
        \cup {[kind |-> "num", num |-> r] : r \in LiveNumbers}

LoaderIds == {"recipients", "daily", "apis", "last"}

\* ======================================================== pure functions

\* --- APIManager -------------------------------------------------------
\* Array.prototype.sort((a, b) => a.priority - b.priority): a stable sort.
\* Faulty variant of SortByPriority: the document's order is kept.
SortByPriorityUnsorted(list) == list

RECURSIVE SortByPriority(_)
SortByPriority(list) ==
    IF Len(list) <= 1 THEN list
    ELSE LET e == list[Len(list)]
             front == SortByPriority(SubSeq(list, 1, Len(list) - 1))
             k == Cardinality({j \in 1..Len(front) : front[j].priority <= e.priority})
         IN  SubSeq(front, 1, k) \o <<e>> \o SubSeq(front, k + 1, Len(front))

\* Faulty variant of isAPIAvailable: the query string is not consulted.
isAPIAvailableAlways(api, key) == TRUE

\* isAPIAvailable(api), for the query string whose AuthName parameter is `key`.
isAPIAvailable(api, key) ==
    IF api.authentication = "none" THEN TRUE ELSE key # "absent"

FilterAvailable(list, key) ==
    LET Test(api) == isAPIAvailable(api, key) IN SelectSeq(list, Test)

getFallbackAPIConfig ==
    << [name |-> "gold-api", priority |-> 1,
        authentication |-> "none", rate_conversion |-> "none"] >>

\* loadAPIConfig, given what loadWithFallback('data/apis.json', null, 2) returned.
loadAPIConfig(file, key) ==
    IF file.kind # "array" THEN getFallbackAPIConfig
    ELSE LET availableAPIs == FilterAvailable(SortByPriority(file.list), key)
         IN  IF Len(availableAPIs) > 0 THEN availableAPIs ELSE getFallbackAPIConfig

\* buildAPIUrl(api): TRUE when it throws 'Missing API key'.
\* Faulty variant of buildAPIUrlThrows: an empty key is taken for a key.
buildAPIUrlThrowsWhenAbsent(api, key) ==
    api.authentication # "none" /\ key = "absent"

buildAPIUrlThrows(api, key) ==
    api.authentication # "none" /\ key \in {"absent", "empty"}

\* --- JSON bodies and price paths ---------------------------------------
\* A string that is split or searched is a sequence of pieces, the piece "."
\* being the one character the code splits on; a key is such a string.
Dot == "."
Str(piece) == <<piece>>
GlobalQuote == Str("Global Quote")
PathStrings ==
    { Str("price"),
      <<"rates", Dot, "XAG">>,
      <<"Global Quote", Dot, "05", Dot, " price">>,
      <<"Global Quote", Dot, "price">>,
      <<"data", Dot, "price">> }

\* String.prototype.split(sep): the pieces of str between occurrences of sep.
RECURSIVE Split(_, _)
Split(str, sep) ==
    LET at == {k \in 1..(Len(str) - Len(sep) + 1) :
                  SubSeq(str, k, k + Len(sep) - 1) = sep}
    IN  IF at = {} THEN <<str>>
        ELSE LET k == CHOOSE x \in at : \A y \in at : x <= y
             IN  <<SubSeq(str, 1, k - 1)>>
                     \o Split(SubSeq(str, k + Len(sep), Len(str)), sep)

\* parseJSONPath: its table of known irregular paths.
complexPaths ==
    [p \in { <<"Global Quote", Dot, "05", Dot, " price">>,
             <<"Global Quote", Dot, "07", Dot, " latest trading day">>,
             <<"rates", Dot, "XAG">>,
             <<"rates", Dot, "USDXAG">> } |->
        CASE p = <<"Global Quote", Dot, "05", Dot, " price">> ->
                <<GlobalQuote, <<"05", Dot, " price">> >>
          [] p = <<"Global Quote", Dot, "07", Dot, " latest trading day">> ->
                <<GlobalQuote, <<"07", Dot, " latest trading day">> >>
          [] p = <<"rates", Dot, "XAG">> -> <<Str("rates"), Str("XAG")>>
          [] OTHER -> <<Str("rates"), Str("USDXAG")>>]

\* parseJSONPath(pathString): the keys to look up, in order.
parseJSONPath(pathString) ==
    IF pathString \in DOMAIN complexPaths THEN complexPaths[pathString]
    ELSE LET parts == Split(pathString, <<"Global Quote", Dot>>)
         IN  IF (\E k \in 1..Len(pathString) : pathString[k] = "Global Quote")
                    /\ Len(parts) = 2
             THEN <<GlobalQuote, parts[2]>>
             ELSE Split(pathString, <<Dot>>)

\* A JSON value: null, a boolean, a number, a string, or an object with
\* one key.
JNull == [t |-> "null"]
JBool == [t |-> "bool"]
JNum(r) == [t |-> "num", n |-> r]
JStr(text) == [t |-> "str", s |-> text]
JObj(key, val) == [t |-> "obj", key |-> key, val |-> val]
JLeaves ==
    {JNull, JBool, JNum(Rat(50)), JNum(Rat(5)), JNum(<<1, 50>>), JNum(Rat(0)),
     JStr("50"), JStr("12abc"), JStr("abc")}
JInner ==
    {JObj(k, v) : k \in {Str("XAG"), <<"05", Dot, " price">>, Str("price")}, v \in JLeaves}
Bodies ==
    JLeaves \cup
    {JObj(k, v) : k \in {Str("price"), Str("rates"), GlobalQuote, Str("data")},
                  v \in JLeaves \cup JInner}

\* parseFloat(value); NaN is not a number.
NaN == <<0, -1>>
parseFloat(value) ==
    CASE value.t = "num" -> value.n
      [] value.t = "str" /\ value.s = "50" -> Rat(50)
      [] value.t = "str" /\ value.s = "12abc" -> Rat(12)
      [] OTHER -> NaN

\* extractPrice: the loop over the keys of the path; found is FALSE when it
\* returns null at `Path segment not found`.
RECURSIVE Walk(_, _)
Walk(value, path) ==
    IF path = << >> THEN [found |-> TRUE, value |-> value]
    ELSE IF value.t = "obj" /\ value.key = Head(path)
    THEN Walk(value.val, Tail(path))
    ELSE [found |-> FALSE, value |-> JNull]

\* What extractPrice finds at the price path of a body.
Resolve(data, pathString) ==
    LET at == Walk(data, parseJSONPath(pathString))
    IN  IF ~at.found THEN [kind |-> "nopath", num |-> Null]
        ELSE IF parseFloat(at.value) = NaN THEN [kind |-> "nan", num |-> Null]
        ELSE [kind |-> "num", num |-> parseFloat(at.value)]

\* Faulty variant of extractPrice: a price is made up when none is found.
extractPriceDefaulting(ans, api) ==
    CASE ans.kind = "nopath" -> Rat(50)
      [] ans.kind = "nan" -> Rat(50)
      [] OTHER -> IF api.rate_conversion = "invert" THEN Invert(ans.num) ELSE ans.num

\* extractPrice(data, api) for a body whose value at the price path is `ans`.
extractPrice(ans, api) ==
    CASE ans.kind = "nopath" -> Null
      [] ans.kind = "nan" -> Null
      [] OTHER -> IF api.rate_conversion = "invert" THEN Invert(ans.num) ELSE ans.num

\* The test of tryIndividualAPI: price && price >= 10 && price <= 200.
\* Faulty variant of PriceAccepted: any truthy price passes.
PriceAcceptedTruthyOnly(price) == Truthy(price)

PriceAccepted(price) ==
    Truthy(price) /\ GreaterEq(price, MinPrice) /\ LessEq(price, MaxPrice)

NullSample ==
    [isNull |-> TRUE, price |-> Null, source |-> "",
     isLive |-> FALSE, isLastKnown |-> FALSE]

\* Faulty variant of LiveSample: the sample does not name its endpoint.
LiveSampleUnnamed(price, api) ==
    [isNull |-> FALSE, price |-> price, source |-> "live",
     isLive |-> TRUE, isLastKnown |-> FALSE]

LiveSample(price, api) ==
    [isNull |-> FALSE, price |-> price, source |-> api.name,
     isLive |-> TRUE, isLastKnown |-> FALSE]

\* --- DataManager ------------------------------------------------------
\* Faulty variant of getLastKnownPrice: the first entry is taken.
getFirstKnownPrice(dailyPricesLoaded) ==
    IF Len(dailyPricesLoaded) > 0
    THEN LET firstEntry == dailyPricesLoaded[1]
         IN  [isNull |-> FALSE, price |-> firstEntry.price,
              source |-> IF firstEntry.source = "" THEN "historical" ELSE firstEntry.source,
              isLive |-> FALSE, isLastKnown |-> TRUE]
    ELSE NullSample

\* Faulty variant of getLastKnownPrice: the band of live prices is applied.
getLastKnownPriceInBand(dailyPricesLoaded) ==
    IF Len(dailyPricesLoaded) > 0
        /\ PriceAccepted(dailyPricesLoaded[Len(dailyPricesLoaded)].price)
    THEN LET lastEntry == dailyPricesLoaded[Len(dailyPricesLoaded)]
         IN  [isNull |-> FALSE, price |-> lastEntry.price,
              source |-> IF lastEntry.source = "" THEN "historical" ELSE lastEntry.source,
              isLive |-> FALSE, isLastKnown |-> TRUE]
    ELSE NullSample

\* getLastKnownPrice, given what loadWithFallback('data/daily-prices.json', [], 2)
\* returned.
getLastKnownPrice(dailyPricesLoaded) ==
    IF Len(dailyPricesLoaded) > 0
    THEN LET lastEntry == dailyPricesLoaded[Len(dailyPricesLoaded)]
         IN  [isNull |-> FALSE, price |-> lastEntry.price,
              source |-> IF lastEntry.source = "" THEN "historical" ELSE lastEntry.source,
              isLive |-> FALSE, isLastKnown |-> TRUE]
    ELSE NullSample

\* --- UIRenderer -------------------------------------------------------
\* Faulty variant of createStatusIcon: every priced sample is shown as live.
createStatusIconAlwaysLive(currentPriceData) ==
    IF ~Truthy(currentPriceData.price) THEN "error" ELSE "reliable"

createStatusIcon(currentPriceData) ==
    IF ~Truthy(currentPriceData.price) THEN "error"
    ELSE IF currentPriceData.isLive THEN "reliable"
    ELSE "warning"

\* createGiftContent: the text above the value; "unavailable" is the
\* message that price data is temporarily unavailable.
\* Faulty variant of createGiftContent: only a null sample is tested.
createGiftContentNullOnly(currentPriceData) ==
    IF currentPriceData.isNull THEN "unavailable"
    ELSE IF currentPriceData.isLastKnown THEN "Last known value"
    ELSE "Current value"

createGiftContent(currentPriceData) ==
    IF ~Truthy(currentPriceData.price) THEN "unavailable"
    ELSE IF currentPriceData.isLastKnown THEN "Last known value"
    ELSE "Current value"

\* createGiftContent: currentValue.toFixed(2) throws a TypeError when the
\* price is not a number.
createGiftContentThrows(currentPriceData) ==
    Truthy(currentPriceData.price) /\ ~IsNumber(currentPriceData.price)

\* showError(message): the messages of the two pages.
ReloadPrompt == "Failed to load the application. Please refresh the page."
LegacyDisplayError == "Error displaying your gift information."
showError(message) == [icon |-> "", label |-> message, currentValue |-> Null, chart |-> << >>]

\* SilverGiftApp.init: the catch block, entered with what loadAndRender
\* threw; the view, what is shown and how init ends.
\* Faulty variant of initCatch: the exception is thrown again.
initCatchRethrows ==
    [view |-> "loading", rendered |-> [icon |-> "", label |-> "", currentValue |-> Null, chart |-> << >>],
     pc |-> "rejected"]

initCatch ==
    [view |-> "error", rendered |-> showError(ReloadPrompt), pc |-> "done"]

\* createGiftContent: currentValue, from which the total value and the
\* percentage change are computed; Null when they are not computed.
currentValue(currentPriceData) ==
    IF ~Truthy(currentPriceData.price) THEN Null ELSE currentPriceData.price

\* --- Utils ------------------------------------------------------------
\* A text is the sequence of its words.
\* Faulty variant of getTimeDifference: the unit is always in the plural.
getTimeDifferencePlural(diffDays) ==
    LET years == diffDays \div 365
        remainingDays == diffDays % 365
    IN  IF years > 0 /\ remainingDays > 0
        THEN <<ToString(years), "years,", ToString(remainingDays), "days", "ago">>
        ELSE IF years > 0 THEN <<ToString(years), "years", "ago">>
        ELSE IF remainingDays > 0 THEN <<ToString(remainingDays), "days", "ago">>
        ELSE <<"today">>

\* Utils.getTimeDifference(giftDate), for a gift date diffDays whole days
\* from now.
getTimeDifference(diffDays) ==
    LET years == diffDays \div 365
        remainingDays == diffDays % 365
    IN  IF years > 0 /\ remainingDays > 0
        THEN <<ToString(years), IF years = 1 THEN "year," ELSE "years,",
               ToString(remainingDays), IF remainingDays = 1 THEN "day" ELSE "days",
               "ago">>
        ELSE IF years > 0
        THEN <<ToString(years), IF years = 1 THEN "year" ELSE "years", "ago">>
        ELSE IF remainingDays > 0
        THEN <<ToString(remainingDays), IF remainingDays = 1 THEN "day" ELSE "days", "ago">>
        ELSE <<"today">>

\* The timeDescription of the legacy renderGiftPage.
legacyTimeDescription(diffDays) ==
    LET years == diffDays \div 365
        remainingDays == diffDays % 365
    IN  IF years > 0 /\ remainingDays > 0
        THEN <<ToString(years), IF years = 1 THEN "year," ELSE "years,",
               ToString(remainingDays), IF remainingDays = 1 THEN "day" ELSE "days",
               "ago">>
        ELSE IF years > 0
        THEN <<ToString(years), IF years = 1 THEN "year" ELSE "years", "ago">>
        ELSE IF remainingDays > 0
        THEN <<ToString(remainingDays), IF remainingDays = 1 THEN "day" ELSE "days", "ago">>
        ELSE <<"today">>

\* --- SilverGiftApp ----------------------------------------------------
\* recipients[recipientId] is truthy: an own key, or a name the object
\* inherits from Object.prototype.
RecipientLookup(map, id) == id \in map \cup ObjectPrototypeKeys

\* Faulty variant of IsValidRecipient: the test is inverted.
IsValidRecipientInverted(map, id) == ~(id # NoId /\ RecipientLookup(map, id))

IsValidRecipient(map, id) == id # NoId /\ RecipientLookup(map, id)

\* ---- DataManager.loadWithFallback -------------------------------------
\* One call is a record: pc ("idle", "await": a request is in flight,
\* "sleep": waiting for the retry timer, "done"), the attempt number, whether
\* the call's AbortController has been aborted, whether the call returned the
\* fallback (fb), and for the record: the number of requests sent (reqs), the
\* delay of the running retry timer, and whether the server answered or
\* would have answered some attempt with valid JSON (okSeen).
IdleLoader ==
    [pc |-> "idle", attempt |-> 0, aborted |-> FALSE, fb |-> FALSE,
     okSeen |-> FALSE, reqs |-> 0, delay |-> 0]

\* The call and its first attempt: a new controller, the timeout timer, fetch.
StartLoader ==
    [pc |-> "await", attempt |-> 1, aborted |-> FALSE, fb |-> FALSE,
     okSeen |-> FALSE, reqs |-> 1, delay |-> 0]

\* The events of a call: the server's response, the timeout timer firing, the
\* retry timer firing.  `disp` is what the server does with the request (for
\* a retry timer: what it would do with the request of the next attempt).
LoaderEvents(rec) ==
    CASE rec.pc = "await" ->
            {[kind |-> "response", disp |-> d] : d \in LoaderDisp \ {"timeout"}}
                \cup {[kind |-> "timeout", disp |-> "timeout"]}
      [] rec.pc = "sleep" ->
            {[kind |-> "timer", disp |-> d] :
                d \in (IF rec.aborted THEN LoaderDisp ELSE {"unknown"})}
      [] OTHER -> {}

\* Faulty variant of LoaderCatch: one attempt more than asked for.
LoaderCatchOneMore(rec, retries) ==
    IF rec.attempt = retries + 1
    THEN [rec EXCEPT !.pc = "done", !.fb = TRUE]
    ELSE [rec EXCEPT !.pc = "sleep", !.delay = retryDelay * rec.attempt]

\* The catch block: the fallback after the last attempt, else the retry timer.
LoaderCatch(rec, retries) ==
    IF rec.attempt = retries
    THEN [rec EXCEPT !.pc = "done", !.fb = TRUE]
    ELSE [rec EXCEPT !.pc = "sleep", !.delay = retryDelay * rec.attempt]

\* Faulty variant of LoaderStep: a JSON body of null is returned as data.
LoaderStepNullIsData(rec, ev, retries) ==
    CASE ev.kind = "response" ->
            IF ev.disp \in {"ok", "null"}
            THEN [rec EXCEPT !.pc = "done", !.fb = FALSE, !.okSeen = TRUE]
            ELSE LoaderCatch(rec, retries)
      [] ev.kind = "timeout" ->
            LoaderCatch([rec EXCEPT !.aborted = TRUE], retries)
      [] ev.kind = "timer" ->
            LET next == [rec EXCEPT !.attempt = @ + 1, !.delay = 0]
            IN  IF rec.aborted
                THEN LoaderCatch([next EXCEPT !.okSeen = @ \/ ev.disp = "ok"], retries)
                ELSE [next EXCEPT !.pc = "await", !.reqs = @ + 1]

\* The controller is created once, before the loop: every attempt fetches
\* with the same signal, and fetch rejects at once when it is aborted.
LoaderStep(rec, ev, retries) ==
    CASE ev.kind = "response" ->
            IF ev.disp = "ok"
            THEN [rec EXCEPT !.pc = "done", !.fb = FALSE, !.okSeen = TRUE]
            ELSE LoaderCatch(rec, retries)
      [] ev.kind = "timeout" ->
            LoaderCatch([rec EXCEPT !.aborted = TRUE], retries)
      [] ev.kind = "timer" ->
            LET next == [rec EXCEPT !.attempt = @ + 1, !.delay = 0]
            IN  IF rec.aborted
                THEN LoaderCatch([next EXCEPT !.okSeen = @ \/ ev.disp = "ok"], retries)
                ELSE [next EXCEPT !.pc = "await", !.reqs = @ + 1]

\* ---- legacy SilverGiftApp.loadWithFallback -----------------------------
LegacyLoaderCatch(rec, retries) ==
    IF rec.attempt = retries
    THEN [rec EXCEPT !.pc = "done", !.fb = TRUE]
    ELSE [rec EXCEPT !.pc = "sleep", !.delay = legacyRetryDelay * rec.attempt]

\* Every attempt creates its own controller: a timeout ends one attempt only.
LegacyLoaderStep(rec, ev, retries) ==
    CASE ev.kind = "response" ->
            IF ev.disp = "ok"
            THEN [rec EXCEPT !.pc = "done", !.fb = FALSE, !.okSeen = TRUE]
            ELSE LegacyLoaderCatch(rec, retries)
      [] ev.kind = "timeout" -> LegacyLoaderCatch(rec, retries)
      [] ev.kind = "timer" ->
            [rec EXCEPT !.attempt = @ + 1, !.delay = 0, !.pc = "await", !.reqs = @ + 1]

\* ================================================================ state
VARIABLES
    app,              \* which page is loaded: "modular" or "legacy"
    recipientId,      \* Utils.getRecipientFromUrl()
    authKey,          \* the AuthName parameter of the query string (the legacy
                      \* page never reads it: it is left absent there)
    dailyFile,        \* data/daily-prices.json, once getLastKnownPrice has read it
    apisFile,         \* data/apis.json as loaded by loadAPIConfig
    ld,               \* the loadWithFallback call of each document
    inflight,         \* HTTP requests sent and not yet settled
    pc,               \* where loadAndRender is suspended
    recipients,       \* loadAppData().recipients: the own keys of the map
    dailyPrices,      \* loadAppData().dailyPrices: "file" (the document) or "fallback" ([])
    apiConfigs,       \* tryAllLiveAPIs: the list returned by loadAPIConfig
    i,                \* tryAllLiveAPIs: index of the endpoint being tried
    attempt,          \* tryIndividualAPI: attempt number
    log,              \* what getCurrentPrice has done so far, in order
    currentPriceData, \* the sample getCurrentPrice returned
    view,             \* what the content element shows
    rendered,         \* the gift page: status icon, price label, chart data
    call              \* a function of the page applied on its own: its name,
                      \* its arguments and, once it has returned, its value

envVars == <<app, recipientId, authKey>>
vars == <<app, recipientId, authKey, dailyFile, apisFile, ld, inflight, pc, recipients,
          dailyPrices, apiConfigs, i, attempt, log, currentPriceData, view, rendered,
          call>>

NothingRendered == [icon |-> "", label |-> "", currentValue |-> Null, chart |-> << >>]
NoCall == [fn |-> "none", done |-> FALSE]

Init ==
    /\ app \in {"modular", "legacy"}
    /\ recipientId \in RecipientIds
    /\ authKey \in (IF app = "modular" THEN AuthKeyStates ELSE {"absent"})
    /\ dailyFile = UnreadDaily
    /\ apisFile = UnreadApis
    /\ ld = [l \in LoaderIds |-> IdleLoader]
    /\ inflight = {}
    /\ pc = "start"
    /\ recipients = {}
    /\ dailyPrices = "pending"
    /\ apiConfigs = << >>
    /\ i = 0
    /\ attempt = 0
    /\ log = << >>
    /\ currentPriceData = NullSample
    /\ view = "loading"
    /\ rendered = NothingRendered
    /\ call = NoCall

Event(op, api, n) == [op |-> op, api |-> api, n |-> n]

InFlightAfter(l, rec) ==
    IF rec.pc = "await" THEN inflight \cup {l} ELSE inflight \ {l}

\* ============================================================== actions
\* An action is one job of the event loop: an event (a response, a timer, a
\* promise settling) and what the page does until it next waits. The
\* operators below are continuations shared by several actions; each sets
\* pc, i, attempt, inflight, log, ld, currentPriceData, view, rendered and
\* dailyFile.

\* UIRenderer.createChart(dailyPrices): the series the chart may be given;
\* loaded: what loadAppData returned, the document or the fallback [];
\* file: the document, if getLastKnownPrice has read it. Of a document
\* that only the chart reads, the empty series and the series of one entry
\* are told apart.
ChartSeries(loaded, file) ==
    IF loaded = "fallback" THEN {<< >>}
    ELSE IF file.known THEN {file.series}
    ELSE SeqsUpTo(HistEntries, 1)

\* UIRenderer.renderGiftPage(recipients[recipientId], dailyPrices, sample):
\* the end of loadAndRender.
renderGiftPage(sample, ldCur, file, fl) ==
    /\ IF createGiftContentThrows(sample)
       THEN /\ view' = initCatch.view
            /\ rendered' = initCatch.rendered
            /\ pc' = initCatch.pc
       ELSE /\ view' = "gift"
            /\ \E series \in ChartSeries(dailyPrices, file) :
                  rendered' = [icon |-> createStatusIcon(sample),
                               label |-> createGiftContent(sample),
                               currentValue |-> currentValue(sample),
                               chart |-> series]
            /\ pc' = "done"
    /\ currentPriceData' = sample
    /\ dailyFile' = file
    /\ ld' = ldCur
    /\ inflight' = fl
    /\ UNCHANGED <<i, attempt, log>>

\* getCurrentPrice after tryAllLiveAPIs returned null: getLastKnownPrice
\* calls loadWithFallback('data/daily-prices.json', [], 2).
StartLastKnown(k, a, logCur, fl) ==
    /\ ld' = [ld EXCEPT !["last"] = StartLoader]
    /\ inflight' = fl \cup {"last"}
    /\ pc' = "lastKnown"
    /\ log' = logCur
    /\ i' = k
    /\ attempt' = a
    /\ UNCHANGED <<currentPriceData, view, rendered, dailyFile>>

\* tryIndividualAPI: the delay before the attempt after `a`.
\* Faulty variant of backoffDelay: the delay does not grow.
backoffDelayFlat(a) == attemptDelay

backoffDelay(a) == attemptDelay * a

\* tryIndividualAPI: the catch block of attempt a on endpoint cfgs[k], and
\* what tryAllLiveAPIs does once the endpoint has used its last attempt.
\* fl: the requests still in flight.
ApiCatch(cfgs, k, a, logCur, fl) ==
    IF a < maxAttempts
    THEN /\ pc' = "backoff"
         /\ log' = Append(logCur, Event("delay", cfgs[k].name, backoffDelay(a)))
         /\ i' = k
         /\ attempt' = a
         /\ inflight' = fl
         /\ UNCHANGED <<ld, currentPriceData, view, rendered, dailyFile>>
    ELSE IF k < Len(cfgs)
    THEN /\ pc' = "pause"
         /\ log' = Append(logCur, Event("pause", cfgs[k].name, apiPause))
         /\ i' = k
         /\ attempt' = a
         /\ inflight' = fl
         /\ UNCHANGED <<ld, currentPriceData, view, rendered, dailyFile>>
    ELSE StartLastKnown(k, a, logCur, fl)

\* tryIndividualAPI: attempt a on endpoint cfgs[k], up to the fetch.
ApiAttempt(cfgs, k, a, logCur, fl) ==
    LET api == cfgs[k]
        tried == Append(logCur, Event("attempt", api.name, a))
    IN  IF buildAPIUrlThrows(api, authKey)
        THEN ApiCatch(cfgs, k, a, tried, fl)
        ELSE /\ pc' = "awaitApi"
             /\ log' = Append(tried, Event("request", api.name, a))
             /\ i' = k
             /\ attempt' = a
             /\ inflight' = fl \cup {api.name}
             /\ UNCHANGED <<ld, currentPriceData, view, rendered, dailyFile>>

\* DOMContentLoaded: init, loadAndRender, loadAppData: both documents are
\* requested at once (Promise.allSettled).
PageLoad ==
    /\ app = "modular"
    /\ pc = "start"
    /\ pc' = "loadAppData"
    /\ ld' = [ld EXCEPT !["recipients"] = StartLoader, !["daily"] = StartLoader]
    /\ inflight' = inflight \cup {"recipients", "daily"}
    /\ UNCHANGED <<envVars, call, dailyFile, apisFile, recipients, dailyPrices, apiConfigs,
                   i, attempt, log, currentPriceData, view, rendered>>

\* An event of loadWithFallback call l (a response, its timeout, its retry
\* timer); `retries` is the call's third argument.
LoaderAction(l, ev, retries) ==
    /\ ld' = [ld EXCEPT ![l] = LoaderStep(ld[l], ev, retries)]
    /\ inflight' = InFlightAfter(l, ld'[l])
    /\ UNCHANGED <<envVars, call, dailyFile, apisFile, pc, recipients, dailyPrices,
                   apiConfigs, i, attempt, log, currentPriceData, view, rendered>>

\* loadAppData: an event of one of its two loadWithFallback calls.
LoadAppDataStep(l, ev) ==
    /\ pc = "loadAppData"
    /\ LoaderAction(l, ev, maxRetries)

\* Promise.allSettled over the two calls of loadAppData.
\* Faulty variant of allSettled: one settled call is enough.
anySettled(calls) == calls["recipients"].pc = "done" \/ calls["daily"].pc = "done"

allSettled(calls) == calls["recipients"].pc = "done" /\ calls["daily"].pc = "done"

\* Both calls have returned: loadAppData returns and loadAndRender goes on
\* to the recipient selector, or to getCurrentPrice, tryAllLiveAPIs,
\* loadAPIConfig and its request for data/apis.json.
LoadAppDataDone ==
    /\ pc = "loadAppData"
    /\ allSettled(ld)
    /\ LET map == IF ld["recipients"].fb THEN {} ELSE RecipientsFile
           returned == [ld EXCEPT !["recipients"] = IdleLoader, !["daily"] = IdleLoader]
       IN  /\ recipients' = map
           /\ dailyPrices' = IF ld["daily"].fb THEN "fallback" ELSE "file"
           /\ IF ~IsValidRecipient(map, recipientId)
              THEN /\ view' = "selector"
                   /\ pc' = "done"
                   /\ ld' = returned
                   /\ inflight' = inflight
              ELSE /\ view' = view
                   /\ pc' = "loadAPIConfig"
                   /\ ld' = [returned EXCEPT !["apis"] = StartLoader]
                   /\ inflight' = inflight \cup {"apis"}
    /\ UNCHANGED <<envVars, call, dailyFile, apisFile, apiConfigs, i, attempt, log,
                   currentPriceData, rendered>>

\* loadAPIConfig: an event of its loadWithFallback call.
LoadAPIConfigStep(ev) ==
    /\ pc = "loadAPIConfig"
    /\ ld["apis"].pc # "done"
    /\ LoaderAction("apis", ev, apiConfigRetries)

\* The call has returned `file` (or null, the fallback): loadAPIConfig
\* returns and tryAllLiveAPIs starts on the first endpoint.
LoadAPIConfigDone(file) ==
    /\ pc = "loadAPIConfig"
    /\ ld["apis"].pc = "done"
    /\ LET config == IF ld["apis"].fb THEN UnreadApis ELSE file
           cfgs == loadAPIConfig(config, authKey)
       IN  /\ apisFile' = config
           /\ apiConfigs' = cfgs
           /\ IF Len(cfgs) = 0
              THEN StartLastKnown(0, 0, log, inflight)
              ELSE ApiAttempt(cfgs, 1, 1, log, inflight)
    /\ UNCHANGED <<envVars, call, recipients, dailyPrices>>

\* tryIndividualAPI: what one answer of the endpoint leads to.
\* Faulty variant of AttemptOutcome: the band is tested on the value as
\* parsed, before the conversion.
AttemptOutcomeBandOnParsed(ans, api) ==
    IF ans.kind \in {"neterr", "http", "badjson"} THEN "catch"
    ELSE IF ans.kind = "num" /\ PriceAccepted(ans.num) THEN "return" ELSE "catch"

AttemptOutcome(ans, api) ==
    IF ans.kind \in {"neterr", "http", "badjson"} THEN "catch"
    ELSE IF PriceAccepted(extractPrice(ans, api)) THEN "return" ELSE "catch"

\* The endpoint answers the request in flight. A sample ends tryAllLiveAPIs
\* and getCurrentPrice, and the gift page is rendered.
ApiRespond(ans) ==
    /\ pc = "awaitApi"
    /\ LET api == apiConfigs[i]
       IN  IF AttemptOutcome(ans, api) = "return"
           THEN renderGiftPage(LiveSample(extractPrice(ans, api), api), ld, dailyFile,
                               inflight \ {api.name})
           ELSE ApiCatch(apiConfigs, i, attempt, log, inflight \ {api.name})
    /\ UNCHANGED <<envVars, call, apisFile, recipients, dailyPrices, apiConfigs>>

\* The timeout timer of the request in flight fires: controller.abort().
ApiTimeout ==
    /\ pc = "awaitApi"
    /\ ApiCatch(apiConfigs, i, attempt, log, inflight \ {apiConfigs[i].name})
    /\ UNCHANGED <<envVars, call, apisFile, recipients, dailyPrices, apiConfigs>>

\* The backoff timer fires: the next attempt on the same endpoint.
ApiBackoffWake ==
    /\ pc = "backoff"
    /\ ApiAttempt(apiConfigs, i, attempt + 1, log, inflight)
    /\ UNCHANGED <<envVars, call, apisFile, recipients, dailyPrices, apiConfigs>>

\* The pause between two endpoints ends: the first attempt on the next one.
ApiPauseWake ==
    /\ pc = "pause"
    /\ ApiAttempt(apiConfigs, i + 1, 1, log, inflight)
    /\ UNCHANGED <<envVars, call, apisFile, recipients, dailyPrices, apiConfigs>>

\* getLastKnownPrice: an event of its loadWithFallback call.
GetLastKnownPriceStep(ev) ==
    /\ pc = "lastKnown"
    /\ ld["last"].pc # "done"
    /\ LoaderAction("last", ev, lastKnownRetries)

\* The call has returned `series` (or [], the fallback): getLastKnownPrice
\* and getCurrentPrice return and the gift page is rendered.
GetLastKnownPriceDone(series) ==
    /\ pc = "lastKnown"
    /\ ld["last"].pc = "done"
    /\ LET returned == [ld EXCEPT !["last"] = IdleLoader]
       IN  IF ld["last"].fb
           THEN renderGiftPage(getLastKnownPrice(<< >>), returned, dailyFile, inflight)
           ELSE renderGiftPage(getLastKnownPrice(series), returned,
                               [known |-> TRUE, series |-> series], inflight)
    /\ UNCHANGED <<envVars, call, apisFile, recipients, dailyPrices, apiConfigs>>

\* ------------------------------------------------------- the legacy page
\* legacy tryLiveAPI: what one answer of gold-api leads to; data.price is
\* tested as it is.
LegacyPriceAccepted(price) ==
    Truthy(price) /\ GreaterEq(price, MinPrice) /\ LessEq(price, MaxPrice)

LegacyAttemptOutcome(ans) ==
    IF ans.kind \in {"neterr", "http", "badjson"} THEN "catch"
    ELSE IF ans.kind = "num" /\ LegacyPriceAccepted(ans.num) THEN "return" ELSE "catch"

\* Faulty variant of LegacyLiveSample: the sample is changed on its way out.
LegacyLiveSampleNotLive(price) ==
    [isNull |-> FALSE, price |-> price, source |-> "gold-api",
     isLive |-> FALSE, isLastKnown |-> FALSE]

LegacyLiveSample(price) ==
    [isNull |-> FALSE, price |-> price, source |-> "gold-api",
     isLive |-> TRUE, isLastKnown |-> FALSE]

legacyBackoffDelay(a) == legacyBackoffBase * (2 ^ a)

\* legacy tryLiveAPI: attempt a, up to the fetch.
LegacyAttempt(a, fl) ==
    /\ pc' = "legacyAwait"
    /\ attempt' = a
    /\ log' = log \o <<Event("attempt", "gold-api", a), Event("request", "gold-api", a)>>
    /\ inflight' = fl \cup {"gold-api"}

\* legacy tryLiveAPI: the catch block of attempt a; after the last attempt
\* getCurrentPrice calls getLastKnownPrice and its loadWithFallback.
LegacyCatch(a, fl) ==
    IF a < legacyMaxRetries
    THEN /\ pc' = "legacyBackoff"
         /\ log' = Append(log, Event("delay", "gold-api", legacyBackoffDelay(a)))
         /\ inflight' = fl
         /\ UNCHANGED <<ld, attempt>>
    ELSE /\ pc' = "legacyLast"
         /\ ld' = [ld EXCEPT !["last"] = StartLoader]
         /\ inflight' = fl \cup {"last"}
         /\ UNCHANGED <<log, attempt>>

\* DOMContentLoaded: init, loadData: the two documents and getCurrentPrice
\* are started at once (Promise.allSettled).
LegacyPageLoad ==
    /\ app = "legacy"
    /\ pc = "start"
    /\ ld' = [ld EXCEPT !["recipients"] = StartLoader, !["daily"] = StartLoader]
    /\ LegacyAttempt(1, inflight \cup {"recipients", "daily"})
    /\ UNCHANGED <<envVars, call, dailyFile, apisFile, recipients, dailyPrices, apiConfigs,
                   i, currentPriceData, view, rendered>>

\* An event of one of the two loadWithFallback calls of loadData.
LegacyLoaderAction(l, ev) ==
    /\ app = "legacy"
    /\ ld' = [ld EXCEPT ![l] = LegacyLoaderStep(ld[l], ev, legacyMaxRetries)]
    /\ inflight' = InFlightAfter(l, ld'[l])
    /\ UNCHANGED <<envVars, call, dailyFile, apisFile, pc, recipients, dailyPrices,
                   apiConfigs, i, attempt, log, currentPriceData, view, rendered>>

\* gold-api answers the request in flight.
LegacyApiRespond(ans) ==
    /\ pc = "legacyAwait"
    /\ IF LegacyAttemptOutcome(ans) = "return"
       THEN /\ currentPriceData' = LegacyLiveSample(ans.num)
            /\ pc' = "legacySettled"
            /\ inflight' = inflight \ {"gold-api"}
            /\ UNCHANGED <<ld, attempt, log>>
       ELSE /\ LegacyCatch(attempt, inflight \ {"gold-api"})
            /\ UNCHANGED currentPriceData
    /\ UNCHANGED <<envVars, call, dailyFile, apisFile, recipients, dailyPrices, apiConfigs,
                   i, view, rendered>>

\* The timeout timer of the request in flight fires.
LegacyApiTimeout ==
    /\ pc = "legacyAwait"
    /\ LegacyCatch(attempt, inflight \ {"gold-api"})
    /\ UNCHANGED <<envVars, call, dailyFile, apisFile, recipients, dailyPrices, apiConfigs,
                   i, currentPriceData, view, rendered>>

\* The backoff timer fires: the next attempt.
LegacyBackoffWake ==
    /\ pc = "legacyBackoff"
    /\ LegacyAttempt(attempt + 1, inflight)
    /\ UNCHANGED <<envVars, call, dailyFile, apisFile, ld, recipients, dailyPrices,
                   apiConfigs, i, currentPriceData, view, rendered>>

\* legacy getLastKnownPrice: an event of its loadWithFallback call.
LegacyLastKnownStep(ev) ==
    /\ pc = "legacyLast"
    /\ ld["last"].pc # "done"
    /\ ld' = [ld EXCEPT !["last"] = LegacyLoaderStep(ld["last"], ev, legacyLastKnownRetries)]
    /\ inflight' = InFlightAfter("last", ld'["last"])
    /\ UNCHANGED <<envVars, call, dailyFile, apisFile, pc, recipients, dailyPrices,
                   apiConfigs, i, attempt, log, currentPriceData, view, rendered>>

\* The call has returned: getLastKnownPrice and getCurrentPrice return.
LegacyLastKnownDone(series) ==
    /\ pc = "legacyLast"
    /\ ld["last"].pc = "done"
    /\ pc' = "legacySettled"
    /\ ld' = [ld EXCEPT !["last"] = IdleLoader]
    /\ IF ld["last"].fb
       THEN /\ currentPriceData' = getLastKnownPrice(<< >>)
            /\ UNCHANGED dailyFile
       ELSE /\ currentPriceData' = getLastKnownPrice(series)
            /\ dailyFile' = [known |-> TRUE, series |-> series]
    /\ UNCHANGED <<envVars, call, apisFile, inflight, recipients, dailyPrices, apiConfigs,
                   i, attempt, log, view, rendered>>

\* All three promises have settled: the recipient selector or the gift page.
LegacyLoadDataDone ==
    /\ pc = "legacySettled"
    /\ allSettled(ld)
    /\ LET map == IF ld["recipients"].fb THEN {} ELSE RecipientsFile
           chart == IF ld["daily"].fb THEN "fallback" ELSE "file"
       IN  /\ recipients' = map
           /\ dailyPrices' = chart
           /\ IF ~IsValidRecipient(map, recipientId)
              THEN /\ view' = "selector"
                   /\ UNCHANGED rendered
              ELSE IF createGiftContentThrows(currentPriceData)
              THEN /\ view' = "error"
                   /\ rendered' = showError(LegacyDisplayError)
              ELSE /\ view' = "gift"
                   /\ \E series \in ChartSeries(chart, dailyFile) :
                         rendered' = [icon |-> createStatusIcon(currentPriceData),
                                      label |-> createGiftContent(currentPriceData),
                                      currentValue |-> currentValue(currentPriceData),
                                      chart |-> series]
    /\ pc' = "done"
    /\ ld' = [ld EXCEPT !["recipients"] = IdleLoader, !["daily"] = IdleLoader]
    /\ UNCHANGED <<envVars, call, dailyFile, apisFile, inflight, apiConfigs, i, attempt, log,
                   currentPriceData>>

Next ==
    \/ PageLoad
    \/ \E l \in {"recipients", "daily"} : \E ev \in LoaderEvents(ld[l]) :
          LoadAppDataStep(l, ev)
    \/ LoadAppDataDone
    \/ \E ev \in LoaderEvents(ld["apis"]) : LoadAPIConfigStep(ev)
    \/ \E file \in (IF ld["apis"].fb THEN {UnreadApis} ELSE ApisFiles) :
          LoadAPIConfigDone(file)
    \/ \E ans \in ApiAnswers : ApiRespond(ans)
    \/ ApiTimeout
    \/ ApiBackoffWake
    \/ ApiPauseWake
    \/ \E ev \in LoaderEvents(ld["last"]) : GetLastKnownPriceStep(ev)
    \/ \E series \in (IF ld["last"].fb THEN {<< >>} ELSE HistSeries) :
          GetLastKnownPriceDone(series)

    \/ LegacyPageLoad
    \/ \E l \in {"recipients", "daily"} : \E ev \in LoaderEvents(ld[l]) :
          LegacyLoaderAction(l, ev)
    \/ \E ans \in ApiAnswers : LegacyApiRespond(ans)
    \/ LegacyApiTimeout
    \/ LegacyBackoffWake
    \/ \E ev \in LoaderEvents(ld["last"]) : LegacyLastKnownStep(ev)
    \/ \E series \in (IF ld["last"].fb THEN {<< >>} ELSE HistSeries) :
          LegacyLastKnownDone(series)
    \/ LegacyLoadDataDone

Spec == Init /\ [][Next]_vars

\* Every fetch settles or is aborted by its timeout timer, every timer
\* fires and the event loop runs every job that is ready.
FairSpec == Spec /\ WF_vars(Next)

TypeOK ==
    /\ pc \in {"start", "loadAppData", "loadAPIConfig", "awaitApi", "backoff",
               "pause", "lastKnown", "done", "rejected",
               "legacyAwait", "legacyBackoff", "legacyLast", "legacySettled"}
    /\ view \in {"loading", "selector", "gift", "error"}
    /\ dailyPrices \in {"pending", "file", "fallback"}

\* ------------------------------------------ functions applied on their own
\* A behaviour of PureSpec is one call of one function of the page: the call
\* and its arguments are chosen at the start, the one step is its return.
\* The page itself is not loaded.
pageVars == <<app, recipientId, authKey, dailyFile, apisFile, ld, inflight, pc,
              recipients, dailyPrices, apiConfigs, i, attempt, log, currentPriceData,
              view, rendered>>

ExtractPriceCalls ==
    {[fn |-> "extractPrice", done |-> FALSE, data |-> d, pricePath |-> p,
      rate_conversion |-> c] :
        d \in Bodies, p \in PathStrings, c \in {"none", "invert"}}

\* --- URL templates ------------------------------------------------------
\* A URL is a sequence of pieces: literal text, the text "{<name>}" that
\* stands for a query parameter, or the value of the key.
Literal(text) == <<text>>
Placeholder(name) == <<"{", name, "}">>
KeyValue == Literal("value")
UrlPieces == {Literal("https://host/"), Placeholder(AuthName), Placeholder("other")}
UrlTemplates == SeqsUpTo(UrlPieces, MaxUrlPieces)

\* String.prototype.replace(searchString, replacement): the first
\* occurrence only.
RECURSIVE replace(_, _, _)
replace(url, search, replacement) ==
    IF url = << >> THEN << >>
    ELSE IF Head(url) = search THEN <<replacement>> \o Tail(url)
    ELSE <<Head(url)>> \o replace(Tail(url), search, replacement)

\* buildAPIUrl(api), the key being urlParams.get(api.authentication).
buildAPIUrl(api, key) ==
    IF api.authentication = "none" THEN [throws |-> FALSE, url |-> api.url]
    ELSE IF buildAPIUrlThrows(api, key) THEN [throws |-> TRUE, url |-> << >>]
    ELSE [throws |-> FALSE,
          url |-> replace(api.url, Placeholder(api.authentication), KeyValue)]

BuildAPIUrlCalls ==
    {[fn |-> "buildAPIUrl", done |-> FALSE, authentication |-> a, url |-> u,
      key |-> k] :
        a \in Authentications, u \in UrlTemplates, k \in AuthKeyStates}

\* tryIndividualAPI: const url = this.buildAPIUrl(api), the URL handed to
\* fetch.
CallBuildAPIUrl ==
    /\ call.fn = "buildAPIUrl"
    /\ ~call.done
    /\ LET api == [authentication |-> call.authentication, url |-> call.url]
       IN  call' = [fn |-> "buildAPIUrl", done |-> TRUE,
                    authentication |-> call.authentication, url |-> call.url,
                    key |-> call.key,
                    returned |-> buildAPIUrl(api, call.key)]
    /\ UNCHANGED pageVars

\* --- loadWithFallback on its own ----------------------------------------
\* One call of loadWithFallback(url, fallback, retries), of the modular
\* DataManager or of the legacy page, with what happened to each attempt
\* (outcomes; "aborted": fetch rejected at once on the aborted signal) and
\* the delays waited.
LoadWithFallbackCalls ==
    {[fn |-> "loadWithFallback", done |-> FALSE, legacy |-> l, retries |-> r,
      rec |-> StartLoader, outcomes |-> << >>, delays |-> << >>] :
        l \in BOOLEAN, r \in 1..MaxRetriesArg}

\* One event of the call: a response, the timeout or the retry timer.
CallLoadWithFallback ==
    /\ call.fn = "loadWithFallback"
    /\ ~call.done
    /\ \E ev \in LoaderEvents(call.rec) :
          LET after == IF call.legacy
                       THEN LegacyLoaderStep(call.rec, ev, call.retries)
                       ELSE LoaderStep(call.rec, ev, call.retries)
              settled == IF ev.kind \in {"response", "timeout"} THEN <<ev.disp>>
                         ELSE IF after.pc = "await" THEN << >>
                         ELSE <<"aborted">>
          IN  call' = [call EXCEPT
                          !.rec = after,
                          !.done = after.pc = "done",
                          !.outcomes = @ \o settled,
                          !.delays = IF after.pc = "sleep" /\ settled # << >>
                                     THEN Append(@, after.delay) ELSE @]
    /\ UNCHANGED pageVars

GetTimeDifferenceCalls ==
    {[fn |-> "getTimeDifference", done |-> FALSE, diffDays |-> d] : d \in 0..MaxDays}

PureCalls ==
    ExtractPriceCalls \cup GetTimeDifferenceCalls \cup BuildAPIUrlCalls
        \cup LoadWithFallbackCalls

PureInit ==
    /\ app = "modular"
    /\ recipientId = NoId
    /\ authKey = "absent"
    /\ dailyFile = UnreadDaily
    /\ apisFile = UnreadApis
    /\ ld = [l \in LoaderIds |-> IdleLoader]
    /\ inflight = {}
    /\ pc = "start"
    /\ recipients = {}
    /\ dailyPrices = "pending"
    /\ apiConfigs = << >>
    /\ i = 0
    /\ attempt = 0
    /\ log = << >>
    /\ currentPriceData = NullSample
    /\ view = "loading"
    /\ rendered = NothingRendered
    /\ call \in PureCalls

\* tryIndividualAPI, from response.json() on: extractPrice(data, api) and
\* the test of the price.
CallExtractPrice ==
    /\ call.fn = "extractPrice"
    /\ ~call.done
    /\ LET api == [name |-> ApiNames[1], rate_conversion |-> call.rate_conversion]
           ans == Resolve(call.data, call.pricePath)
       IN  call' = [fn |-> "extractPrice", done |-> TRUE, data |-> call.data,
                    pricePath |-> call.pricePath,
                    rate_conversion |-> call.rate_conversion,
                    returned |-> extractPrice(ans, api),
                    outcome |-> AttemptOutcome(ans, api),
                    sample |-> IF AttemptOutcome(ans, api) = "return"
                               THEN LiveSample(extractPrice(ans, api), api)
                               ELSE NullSample]
    /\ UNCHANGED pageVars

\* renderGiftPage: the description of the time since the gift, by the
\* modular page and by the legacy page.
CallGetTimeDifference ==
    /\ call.fn = "getTimeDifference"
    /\ ~call.done
    /\ call' = [fn |-> "getTimeDifference", done |-> TRUE, diffDays |-> call.diffDays,
                returned |-> getTimeDifference(call.diffDays),
                legacy |-> legacyTimeDescription(call.diffDays)]
    /\ UNCHANGED pageVars

PureNext ==
    \/ CallExtractPrice
    \/ CallGetTimeDifference
    \/ CallBuildAPIUrl
    \/ CallLoadWithFallback

PureSpec == PureInit /\ [][PureNext]_vars

\* ========================================================== properties
Requests == {p \in 1..Len(log) : log[p].op = "request"}
Attempts == {p \in 1..Len(log) : log[p].op = "attempt"}
Delays == {p \in 1..Len(log) : log[p].op = "delay"}
Configured == {apisFile.list[k] : k \in 1..Len(apisFile.list)}
ConfiguredNamed(name) == CHOOSE e \in Configured : e.name = name
PositionIn(list, name) == CHOOSE k \in 1..Len(list) : list[k].name = name
Exhausted(name) == \E p \in Attempts : log[p].api = name /\ log[p].n = maxAttempts

\* C1: two configured endpoints of different priority are never requested
\* in the wrong order: no request to the endpoint of higher priority value
\* comes before a request to the one of lower priority value, wherever the
\* two stand in data/apis.json.
C1_AscendingPriority ==
    app = "modular" =>
        \A p, q \in Requests :
            (p < q /\ log[p].api # "gold-api" /\ log[q].api # "gold-api") =>
                ConfiguredNamed(log[p].api).priority <= ConfiguredNamed(log[q].api).priority

\* Both endpoints of a document that lists them in descending priority have
\* been requested.
C1_Witness ==
    /\ app = "modular"
    /\ \E p, q \in Requests :
          /\ p < q
          /\ log[p].api = "api2"
          /\ log[q].api = "api1"
          /\ ConfiguredNamed("api2").priority < ConfiguredNamed("api1").priority

\* C2: an endpoint whose authentication parameter is absent from the query
\* string is not in the list tryAllLiveAPIs works on and gets no attempt, no
\* request and no delay; an endpoint without authentication is in the list
\* whenever the document loaded.
C2_SkippedWithoutKey ==
    app = "modular" =>
        \A e \in Configured :
            /\ (e.authentication # "none" /\ authKey = "absent") =>
                  /\ \A p \in 1..Len(log) : log[p].api # e.name
                  /\ e.name \notin inflight
                  /\ \A k \in 1..Len(apiConfigs) : apiConfigs[k].name # e.name
            /\ e.authentication = "none" =>
                  \E k \in 1..Len(apiConfigs) : apiConfigs[k] = e

\* The page load is over; the document listed an endpoint that needs the
\* absent key before one that needs none, and the latter was tried.
C2_Witness ==
    /\ app = "modular"
    /\ pc = "done"
    /\ authKey = "absent"
    /\ Len(apisFile.list) = 2
    /\ apisFile.list[1].authentication # "none"
    /\ apisFile.list[1].priority < apisFile.list[2].priority
    /\ Exhausted(apisFile.list[2].name)

InBand(v) == v # Null /\ v[2] > 0 /\ 10 * v[2] <= v[1] /\ v[1] <= 200 * v[2]
NetworkError == [kind |-> "neterr", num |-> Null]

\* C3: every live sample has a price within [10, 200], and while a request
\* to an endpoint is in flight every numeric answer outside the band has the
\* outcome of a network error (the catch block), in tryIndividualAPI and in
\* the legacy tryLiveAPI.
C3_BandEnforced ==
    /\ currentPriceData.isLive => InBand(currentPriceData.price)
    /\ pc = "awaitApi" =>
          \A ans \in ApiAnswers :
              (ans.kind = "num" /\ ~InBand(extractPrice(ans, apiConfigs[i]))) =>
                  AttemptOutcome(ans, apiConfigs[i])
                      = AttemptOutcome(NetworkError, apiConfigs[i])
    /\ pc = "legacyAwait" =>
          \A ans \in ApiAnswers :
              (ans.kind = "num" /\ ~InBand(ans.num)) =>
                  LegacyAttemptOutcome(ans) = LegacyAttemptOutcome(NetworkError)

\* A sample at the upper edge of the band, returned by a second attempt.
C3_Witness ==
    /\ app = "modular"
    /\ currentPriceData.isLive
    /\ currentPriceData.price = Rat(200)
    /\ attempt = 2

GetCurrentPriceReturned ==
    \/ app = "modular" /\ pc = "done" /\ view \in {"gift", "error"}
    \/ app = "legacy" /\ pc \in {"legacySettled", "done"}
LiveExhausted ==
    IF app = "modular"
    THEN apiConfigs # << >> /\ \A k \in 1..Len(apiConfigs) : Exhausted(apiConfigs[k].name)
    ELSE \E p \in Attempts : log[p].n = legacyMaxRetries

\* C4: when getCurrentPrice returns without a live sample and
\* getLastKnownPrice loaded a non-empty series, the sample is the last entry
\* of that series (its price, isLastKnown, not isLive, its source or
\* 'historical'); and getLastKnownPrice requests the series only when every
\* live endpoint has used all its attempts and none gave a sample.
C4_LastKnownIsLastEntry ==
    /\ (GetCurrentPriceReturned /\ ~currentPriceData.isLive
            /\ dailyFile.known /\ dailyFile.series # << >>) =>
          LET lastEntry == dailyFile.series[Len(dailyFile.series)]
          IN  /\ ~currentPriceData.isNull
              /\ currentPriceData.price = lastEntry.price
              /\ currentPriceData.isLastKnown
              /\ ~currentPriceData.isLive
              /\ currentPriceData.source =
                    IF lastEntry.source = "" THEN "historical" ELSE lastEntry.source
    /\ (ld["last"].pc # "idle" \/ dailyFile.known) =>
          LiveExhausted /\ ~currentPriceData.isLive

\* A last-known sample taken from a series of two different entries, the
\* last one without a source.
C4_Witness ==
    /\ GetCurrentPriceReturned
    /\ currentPriceData.isLastKnown
    /\ Len(dailyFile.series) = 2
    /\ dailyFile.series[1] # dailyFile.series[2]
    /\ currentPriceData.source = "historical"

RecipientsLoaded ==
    \/ app = "modular" /\ pc \notin {"start", "loadAppData"}
    \/ app = "legacy" /\ pc = "done"

\* C5: once the recipient map is loaded, a recipient parameter that is
\* absent or is not a key of the map leads to the recipient selector: never
\* to the gift page or the error view, and nothing but the selector is
\* shown from then on.
C5_UnknownRecipientGetsSelector ==
    (RecipientsLoaded /\ (recipientId = NoId \/ recipientId \notin recipients)) =>
        view = "selector"

\* C6: in tryAllLiveAPIs an endpoint gets attempts 1, 2, 3 at most, in that
\* order; the delay after attempt a < 3 is 500 * a, so delays grow strictly,
\* and there is none after attempt 3; an attempt on another endpoint comes
\* only after attempt 3 on the current one, and only on a later endpoint of
\* the list.
C6_BoundedTriesWithBackoff ==
    app = "modular" =>
        /\ \A p \in Attempts : log[p].n \in 1..3
        /\ \A p, q \in Attempts :
              (p < q /\ log[p].api = log[q].api) => log[p].n < log[q].n
        /\ \A p, q \in Attempts :
              (p < q /\ log[p].api # log[q].api) =>
                  /\ PositionIn(apiConfigs, log[p].api) < PositionIn(apiConfigs, log[q].api)
                  /\ \E r \in Attempts : r < q /\ log[r].api = log[p].api /\ log[r].n = 3
        /\ \A p \in Delays :
              \E r \in Attempts :
                  /\ r < p
                  /\ log[r].api = log[p].api
                  /\ log[r].n < 3
                  /\ log[p].n = 500 * log[r].n
                  /\ \A t \in Attempts : (r < t /\ t < p) => FALSE
        /\ \A p, q \in Delays :
              (p < q /\ log[p].api = log[q].api) => log[p].n < log[q].n

\* The first endpoint has failed its three attempts, after delays of 500
\* and 1000, and the second endpoint is being tried.
C6_Witness ==
    /\ app = "modular"
    /\ Len(apiConfigs) = 2
    /\ i = 2
    /\ \E p, q \in Delays :
          /\ log[p] = Event("delay", apiConfigs[1].name, 500)
          /\ log[q] = Event("delay", apiConfigs[1].name, 1000)
    /\ \E p \in Attempts : log[p] = Event("attempt", apiConfigs[2].name, 1)

\* C7: a live sample returned by tryAllLiveAPIs carries the name of the
\* endpoint being tried; every endpoint before it in the list has priority
\* at most its own and has failed all its attempts; the request that gave
\* the sample is the last thing getCurrentPrice did: nothing is in flight,
\* the page is rendered and getLastKnownPrice was never called.
C7_FirstValidSample ==
    (app = "modular" /\ currentPriceData.isLive) =>
        /\ pc = "done"
        /\ view = "gift"
        /\ inflight = {}
        /\ currentPriceData.source = apiConfigs[i].name
        /\ log[Len(log)] = Event("request", currentPriceData.source, attempt)
        /\ \A k \in 1..(i - 1) :
              /\ apiConfigs[k].priority <= apiConfigs[i].priority
              /\ Exhausted(apiConfigs[k].name)
        /\ \A p \in Requests : PositionIn(apiConfigs, log[p].api) <= i
        /\ ld["last"] = IdleLoader
        /\ ~dailyFile.known

\* The second endpoint of the list gave the sample on its second attempt.
C7_Witness ==
    /\ app = "modular"
    /\ currentPriceData.isLive
    /\ i = 2
    /\ attempt = 2
    /\ apiConfigs[1].priority < apiConfigs[2].priority

InGetCurrentPrice ==
    /\ app = "modular"
    /\ \/ pc \in {"loadAPIConfig", "awaitApi", "backoff", "pause", "lastKnown"}
       \/ pc = "done" /\ view \in {"gift", "error"}

\* C8: from the call of getCurrentPrice to its return (config load, live
\* attempts, historical fallback) at most one HTTP request is in flight.
C8_OneRequestAtATime ==
    InGetCurrentPrice => Cardinality(inflight) <= 1

\* The historical fallback is in flight after two endpoints were tried.
C8_Witness ==
    /\ app = "modular"
    /\ pc = "lastKnown"
    /\ inflight = {"last"}
    /\ Len(apiConfigs) = 2
    /\ Requests # {}

\* C9: a loadWithFallback call of DataManager during which the server
\* answered, or was ready to answer, some attempt with valid JSON returns
\* that data and not the fallback.
C9_LaterAttemptSucceeds ==
    app = "modular" =>
        \A l \in LoaderIds : (ld[l].pc = "done" /\ ld[l].okSeen) => ~ld[l].fb

RecipientPresent ==
    app = "modular" /\ pc \notin {"start", "loadAppData"} /\ recipientId \in recipients

\* renderGiftPage was invoked and threw on a price that is not a number: a
\* fault of the series' content, not of a network call.
RenderThrew == view = "error" /\ createGiftContentThrows(currentPriceData)

\* C10: with a recipient that is a key of the loaded map, whatever the
\* servers answer, the page never shows the selector, the load ends with
\* renderGiftPage invoked, and no failure of a network call leads to the
\* error view: it is shown only when renderGiftPage threw on a price that
\* is not a number.
C10_GiftPageAlwaysRendered ==
    /\ [](RecipientPresent => (view \in {"loading", "gift"} \/ RenderThrew))
    /\ [](RecipientPresent => <>(pc = "done" /\ (view = "gift" \/ RenderThrew)))

\* The gift page of a known recipient, rendered without any sample: every
\* endpoint failed and daily-prices.json could not be loaded.
C10_Witness ==
    /\ RecipientPresent
    /\ pc = "done"
    /\ view = "gift"
    /\ currentPriceData.isNull
    /\ apisFile.kind = "null"
    /\ dailyPrices = "fallback"

GetCurrentPriceCalled ==
    \/ app = "modular" /\ pc = "loadAPIConfig"
    \/ app = "legacy" /\ pc = "legacyAwait"

\* C11: getCurrentPrice, once called, returns (a sample or null) when every
\* fetch settles or is aborted by its timeout; with N endpoints in the list
\* of tryAllLiveAPIs it sends at most 3 * N requests to live endpoints, at
\* most 2 requests for data/apis.json and at most 2 requests for
\* data/daily-prices.json; the legacy tryLiveAPI sends at most 5 requests.
C11_TerminatesWithinBudget ==
    /\ [](app = "modular" =>
            /\ Cardinality(Requests) <= 3 * Len(apiConfigs)
            /\ ld["apis"].reqs <= 2
            /\ ld["last"].reqs <= 2)
    /\ [](app = "legacy" => Cardinality(Requests) <= 5)
    /\ [](GetCurrentPriceCalled => <>GetCurrentPriceReturned)

\* getCurrentPrice has returned null after three requests to each of two
\* endpoints and two requests for data/daily-prices.json.
C11_Witness ==
    /\ app = "modular"
    /\ GetCurrentPriceReturned
    /\ Len(apiConfigs) = 2
    /\ Cardinality(Requests) = 6
    /\ currentPriceData.isNull
    /\ ~dailyFile.known

\* The sample object tryIndividualAPI or the legacy tryLiveAPI builds from
\* the answer `ans` of the endpoint named `name`.
FetcherCreates(sample, name, price) ==
    /\ ~sample.isNull
    /\ sample.price = price
    /\ sample.source = name
    /\ sample.isLive
    /\ ~sample.isLastKnown
\* The sample object getLastKnownPrice builds from the series it loaded.
FallbackCreates(sample, series) ==
    /\ series # << >>
    /\ ~sample.isNull
    /\ sample.price = series[Len(series)].price
    /\ ~sample.isLive
    /\ sample.isLastKnown

\* C12 as stated: every complete page load, from init to the rendered gift
\* page, has created exactly one sample: the gift page is never rendered
\* without one.
C12_ExactlyOneSample ==
    (pc = "done" /\ view = "gift") => ~currentPriceData.isNull

\* C12: a page load creates at most one sample, and none when every source
\* fails or the modular page shows the selector: the sample, once there, is
\* never replaced or changed; when it appears it is field for field what
\* the fetcher built from the endpoint's answer or what getLastKnownPrice
\* built from the series it loaded; and the gift page, when rendered, shows
\* that sample.
C12_AtMostOneSampleUnchanged ==
    [][ /\ ~currentPriceData.isNull => currentPriceData' = currentPriceData
        /\ currentPriceData' # currentPriceData =>
              \/ /\ pc = "awaitApi"
                 /\ \E ans \in ApiAnswers :
                       FetcherCreates(currentPriceData', apiConfigs[i].name,
                                      extractPrice(ans, apiConfigs[i]))
              \/ /\ pc = "legacyAwait"
                 /\ \E ans \in ApiAnswers :
                       FetcherCreates(currentPriceData', "gold-api", ans.num)
              \/ /\ pc \in {"lastKnown", "legacyLast"}
                 /\ dailyFile'.known
                 /\ FallbackCreates(currentPriceData', dailyFile'.series)
        /\ (view # "gift" /\ view' = "gift") =>
              /\ rendered'.icon = createStatusIcon(currentPriceData')
              /\ rendered'.label = createGiftContent(currentPriceData')
      ]_vars

\* The legacy page has rendered the gift page with the live sample it got
\* while the two documents were still loading.
C12_Witness ==
    /\ app = "legacy"
    /\ pc = "done"
    /\ view = "gift"
    /\ currentPriceData.isLive
    /\ rendered.icon = "reliable"
    /\ attempt = 2

\* The value the keys lead to in a body, when every key is there.
Reaches(data, keys, value) ==
    \/ keys = << >> /\ value = data
    \/ /\ Len(keys) = 1
       /\ data.t = "obj" /\ data.key = keys[1] /\ value = data.val
    \/ /\ Len(keys) = 2
       /\ data.t = "obj" /\ data.key = keys[1]
       /\ data.val.t = "obj" /\ data.val.key = keys[2] /\ value = data.val.val
\* JSON values parseFloat reads a number from: numbers, and strings that
\* start with one.
ReadsAsNumber(value) ==
    value.t = "num" \/ (value.t = "str" /\ value.s \in {"50", "12abc"})
Reachable(data, keys) ==
    {v \in JLeaves \cup JInner \cup Bodies : Reaches(data, keys, v)}

\* C13: when a key of the resolved path is missing from the body, or the
\* value before it is not an object, or the value at the end of the path
\* does not read as a number, extractPrice returns null and the attempt of
\* tryIndividualAPI ends in its catch block, as it does after a network
\* error: no sample is returned.
C13_NoPriceIsAFailedAttempt ==
    (call.fn = "extractPrice" /\ call.done) =>
        LET keys == parseJSONPath(call.pricePath)
            ends == Reachable(call.data, keys)
        IN  (ends = {} \/ \A v \in ends : ~ReadsAsNumber(v)) =>
                /\ call.returned = Null
                /\ call.outcome = "catch"
                /\ call.outcome =
                      AttemptOutcome(NetworkError, [rate_conversion |-> call.rate_conversion])

\* The path rates.XAG leads to a string that is no number.
C13_Witness ==
    /\ call.fn = "extractPrice"
    /\ call.done
    /\ call.pricePath = <<"rates", Dot, "XAG">>
    /\ call.data = JObj(Str("rates"), JObj(Str("XAG"), JStr("abc")))
    /\ call.returned = Null

\* C14: two endpoints of data/apis.json that have the same priority are
\* never both attempted: requests never go to both of them.
C14_TiedEndpointsNotBothAttempted ==
    app = "modular" =>
        \A p, q \in Requests :
            (log[p].api # log[q].api /\ log[p].api # "gold-api" /\ log[q].api # "gold-api") =>
                ConfiguredNamed(log[p].api).priority # ConfiguredNamed(log[q].api).priority

Count(n, one, many) == <<ToString(n), IF n = 1 THEN one ELSE many>>

\* C15: for a gift date d whole days from now, with years = d div 365 and
\* rest = d mod 365, the description is 'today' exactly when d = 0,
\* '<rest> day(s) ago' when years = 0 < rest, '<years> year(s) ago' when
\* rest = 0 < years, and '<years> year(s), <rest> day(s) ago' otherwise,
\* the unit in the singular exactly for the value 1: 365 days read
\* '1 year ago'.  The legacy page gives the same description.
C15_ElapsedTimeDescription ==
    (call.fn = "getTimeDifference" /\ call.done) =>
        LET d == call.diffDays
            years == d \div 365
            rest == d % 365
        IN  /\ (call.returned = <<"today">>) <=> (d = 0)
            /\ (years = 0 /\ rest > 0) =>
                  call.returned = Count(rest, "day", "days") \o <<"ago">>
            /\ (rest = 0 /\ years > 0) =>
                  call.returned = Count(years, "year", "years") \o <<"ago">>
            /\ (rest > 0 /\ years > 0) =>
                  call.returned = Count(years, "year,", "years,")
                                      \o Count(rest, "day", "days") \o <<"ago">>
            /\ d = 365 => call.returned = <<"1", "year", "ago">>
            /\ call.legacy = call.returned

\* The description of a gift made 365 days ago.
C15_Witness ==
    /\ call.fn = "getTimeDifference"
    /\ call.done
    /\ call.diffDays = 365
    /\ call.returned = <<"1", "year", "ago">>

SampleAbsent == currentPriceData.isNull \/ currentPriceData.price = Null

RECURSIVE replaceAll(_, _, _)
replaceAll(url, search, replacement) ==
    IF url = << >> THEN << >>
    ELSE <<IF Head(url) = search THEN replacement ELSE Head(url)>>
             \o replaceAll(Tail(url), search, replacement)

Contains(url, piece) == \E k \in 1..Len(url) : url[k] = piece

\* C17: for an endpoint whose authentication is not 'none' and whose key is
\* in the query string, the URL requested is the template with every
\* occurrence of {<authentication name>} replaced by the key, so no such
\* placeholder is left in it; for authentication 'none' the URL is the
\* template unchanged.
C17_EveryPlaceholderReplaced ==
    (call.fn = "buildAPIUrl" /\ call.done) =>
        /\ (call.authentication # "none" /\ call.key = "value") =>
              /\ ~call.returned.throws
              /\ call.returned.url =
                    replaceAll(call.url, Placeholder(call.authentication), KeyValue)
              /\ ~Contains(call.returned.url, Placeholder(call.authentication))
        /\ call.authentication = "none" =>
              /\ ~call.returned.throws
              /\ call.returned.url = call.url

\* loadAndRender has thrown: the one statement of the page that throws is
\* renderGiftPage, on a sample whose price is not a number.
LoadAndRenderThrew ==
    /\ pc \in {"done", "rejected"}
    /\ IsValidRecipient(recipients, recipientId)
    /\ createGiftContentThrows(currentPriceData)

\* C18: in the modular page an exception that escapes loadAndRender is
\* caught by init, which shows the reload prompt; init never rejects; and
\* the error view is shown only by that catch block.
C18_CatchAllShowsReloadPrompt ==
    app = "modular" =>
        /\ pc # "rejected"
        /\ LoadAndRenderThrew => (view = "error" /\ rendered = showError(ReloadPrompt))
        /\ view = "error" => LoadAndRenderThrew

\* The modular page showing the reload prompt after renderGiftPage threw on
\* a last-known sample whose price is a string.
C18_Witness ==
    /\ app = "modular"
    /\ pc = "done"
    /\ view = "error"
    /\ rendered.label = ReloadPrompt
    /\ currentPriceData.isLastKnown
    /\ ~IsNumber(currentPriceData.price)

\* C19: whenever the series given to the chart of the gift page is not
\* empty and no live endpoint gave a sample, the sample given to the same
\* renderGiftPage call is the last-known sample built from the last entry
\* of that series; it is never absent while the chart has data.
C19_ChartAndSampleAgree ==
    (app = "modular" /\ view = "gift" /\ rendered.chart # << >>
        /\ ~currentPriceData.isLive) =>
        /\ ~currentPriceData.isNull
        /\ currentPriceData = getLastKnownPrice(rendered.chart)

\* C20: a call of loadWithFallback with retries >= 1 always returns: it
\* sends at most `retries` requests; it returns the data of the first
\* attempt answered OK with JSON other than null, else the fallback after
\* exactly `retries` failed attempts; after failed attempt k it waits
\* retryDelay * k, except after the last; a body of null is a failed attempt.
C20_LoadWithFallbackContract ==
    call.fn = "loadWithFallback" =>
        LET rec == call.rec
            n == Len(call.outcomes)
            failed == {k \in 1..n : call.outcomes[k] # "ok"}
        IN  /\ rec.pc \in {"await", "sleep", "done"}
            /\ rec.reqs <= call.retries
            /\ rec.attempt <= call.retries
            /\ call.delays = [k \in 1..Len(call.delays) |-> retryDelay * k]
            /\ rec.pc = "await" => (n = rec.attempt - 1 /\ Len(call.delays) = n)
            /\ rec.pc = "sleep" => (n = rec.attempt /\ Len(call.delays) = n)
            /\ rec.pc # "done" => failed = 1..n
            /\ rec.pc = "done" =>
                  /\ Len(call.delays) = n - 1
                  /\ failed \in {1..n, 1..(n - 1)}
                  /\ IF call.outcomes[n] = "ok"
                     THEN ~rec.fb
                     ELSE rec.fb /\ n = call.retries

\* The modular loader has returned the fallback after three attempts: a body
\* of null, then the timeout, then a fetch rejected on the aborted signal.
C20_Witness ==
    /\ call.fn = "loadWithFallback"
    /\ ~call.legacy
    /\ call.done
    /\ call.rec.fb
    /\ call.outcomes = <<"null", "timeout", "aborted">>
    /\ call.delays = <<500, 1000>>
    /\ call.rec.reqs = 2

\* The number parseFloat read at the end of the price path of the call's
\* body, when there is one.
ParsedAt(data, pathString) ==
    {parseFloat(v) : v \in {w \in Reachable(data, parseJSONPath(pathString)) :
                               ReadsAsNumber(w)}}

\* C21: the conversion comes after the parse and before the band test: for
\* an endpoint with rate_conversion 'invert' the value tested against
\* [10, 200] and stored in the sample is 1 / parsed, for any other endpoint
\* the parsed value; a parsed 0 gives no sample in either mode.
C21_InvertBeforeBand ==
    (call.fn = "extractPrice" /\ call.done) =>
        \A parsed \in ParsedAt(call.data, call.pricePath) :
            LET tested == IF call.rate_conversion = "invert"
                          THEN <<parsed[2], parsed[1]>> ELSE parsed
                inBand == /\ tested[1] # 0
                          /\ tested[1] >= MinPrice * tested[2]
                          /\ tested[1] <= MaxPrice * tested[2]
            IN  /\ call.returned = tested
                /\ inBand <=> call.outcome = "return"
                /\ inBand => (~call.sample.isNull /\ call.sample.price = tested)
                /\ ~inBand => call.sample.isNull
                /\ parsed[1] = 0 => (call.outcome = "catch" /\ call.sample.isNull)

\* An endpoint that quotes ounces per dollar answered 1/50: the sample
\* carries 50.
C21_Witness ==
    /\ call.fn = "extractPrice"
    /\ call.done
    /\ call.rate_conversion = "invert"
    /\ call.data = JObj(Str("price"), JNum(<<1, 50>>))
    /\ call.pricePath = Str("price")
    /\ call.outcome = "return"
    /\ call.sample.price = Rat(50)

\* data/apis.json lists an endpoint that isAPIAvailable lets through.
SomeEndpointAvailable ==
    \E e \in Configured : isAPIAvailable(e, authKey)

\* C22: the list tryAllLiveAPIs works on is never empty: when data/apis.json
\* could not be loaded, is not an array, or lists no endpoint whose key is
\* in the query string, it is the built-in 'gold-api' endpoint alone; so
\* every call of getCurrentPrice has sent at least one request to a live
\* endpoint by the time it returns.
C22_AtLeastOneLiveRequest ==
    (app = "modular" /\ GetCurrentPriceReturned) =>
        /\ apiConfigs # << >>
        /\ (apisFile.kind # "array" \/ ~SomeEndpointAvailable) =>
              apiConfigs = getFallbackAPIConfig
        /\ Requests # {}

\* What the log holds of one endpoint: its attempts and its delays, in order.
TriesOf(name) ==
    LET Mine(e) == e.api = name /\ e.op \in {"attempt", "request", "delay"}
    IN  SelectSeq(log, Mine)

\* tryAllLiveAPIs is done with the endpoint at position pos of its list.
MovedOn(pos) ==
    i > pos \/ (i = pos /\ pc \in {"pause", "lastKnown", "done"})

\* C23: with the key parameter present but empty, an endpoint that needs
\* the key stays in the list of tryAllLiveAPIs, no request is ever sent to
\* it, and when tryAllLiveAPIs moves on it has used attempts 1, 2 and 3 with
\* the delays 500 and 1000 between them.
C23_EmptyKeyConsumesAttempts ==
    (app = "modular" /\ authKey = "empty" /\ apisFile.kind = "array") =>
        \A e \in Configured :
            e.authentication # "none" =>
                /\ \E k \in 1..Len(apiConfigs) : apiConfigs[k] = e
                /\ \A p \in Requests : log[p].api # e.name
                /\ e.name \notin inflight
                /\ MovedOn(PositionIn(apiConfigs, e.name)) =>
                      TriesOf(e.name) =
                          << Event("attempt", e.name, 1), Event("delay", e.name, 500),
                             Event("attempt", e.name, 2), Event("delay", e.name, 1000),
                             Event("attempt", e.name, 3) >>

\* The endpoint that needs the key came first and used its three attempts
\* without a request; the next endpoint, which needs none, is being
\* requested.
C23_Witness ==
    /\ app = "modular"
    /\ authKey = "empty"
    /\ Len(apiConfigs) = 2
    /\ apiConfigs[1].authentication # "none"
    /\ apiConfigs[2].authentication = "none"
    /\ i = 2
    /\ pc = "awaitApi"
    /\ Len(TriesOf(apiConfigs[1].name)) = 5
    /\ \E p \in Requests : log[p].api = apiConfigs[2].name

\* C24: only a live sample is held to the band [10, 200]; when no endpoint
\* gave a sample and getLastKnownPrice read a series that is not empty,
\* getCurrentPrice returns the last entry's price as it is, in the band or
\* not, missing or not, and the gift page shows the value of a price that
\* is a number.
C24_BandOnlyOnLiveSamples ==
    /\ currentPriceData.isLive => InBand(currentPriceData.price)
    /\ (GetCurrentPriceReturned /\ ~currentPriceData.isLive
            /\ dailyFile.known /\ dailyFile.series # << >>) =>
          /\ currentPriceData.isLastKnown
          /\ currentPriceData.price = dailyFile.series[Len(dailyFile.series)].price
    /\ (view = "gift" /\ currentPriceData.isLastKnown
            /\ Truthy(currentPriceData.price)) =>
          rendered.currentValue = currentPriceData.price

\* The gift page shows a last-known price of 5, below the band.
C24_Witness ==
    /\ app = "modular"
    /\ view = "gift"
    /\ currentPriceData.isLastKnown
    /\ currentPriceData.price = Rat(5)
    /\ ~InBand(currentPriceData.price)
    /\ rendered.currentValue = Rat(5)
    /\ rendered.label = "Last known value"

\* The page load is over and the sample was handed to renderGiftPage.
SampleRendered == pc = "done" /\ view # "selector"

\* C25 as stated: a sample is never both live and last-known, the
\* 'reliable' icon and the 'Current value' label are shown only for a live
\* sample, and every sample taken from the historical series is rendered
\* with the 'warning' icon and the 'Last known value' label.
C25_HistoricalAlwaysWarning ==
    /\ ~(currentPriceData.isLive /\ currentPriceData.isLastKnown)
    /\ view = "gift" =>
          /\ rendered.icon = "reliable" => currentPriceData.isLive
          /\ rendered.label = "Current value" => currentPriceData.isLive
    /\ (SampleRendered /\ currentPriceData.isLastKnown) =>
          /\ view = "gift"
          /\ rendered.icon = "warning"
          /\ rendered.label = "Last known value"

\* C25: a sample is never both live and last-known; the 'reliable' icon and
\* the 'Current value' label are shown only, and together, for a live sample
\* whose endpoint was requested during this page load; a sample taken from
\* the historical series is rendered with the 'warning' icon and the 'Last
\* known value' label when its price is a number, with the 'error' icon and
\* the placeholder when it has no price, and not at all when its price is
\* not a number: the render throws and the error view is shown.
C25_ProvenanceOfPricedSamples ==
    /\ ~(currentPriceData.isLive /\ currentPriceData.isLastKnown)
    /\ view = "gift" =>
          /\ rendered.icon = "reliable" <=> rendered.label = "Current value"
          /\ rendered.icon = "reliable" =>
                /\ currentPriceData.isLive
                /\ \E p \in Requests : log[p].api = currentPriceData.source
    /\ (SampleRendered /\ currentPriceData.isLastKnown) =>
          IF ~Truthy(currentPriceData.price)
          THEN view = "gift" /\ rendered.icon = "error" /\ rendered.label = "unavailable"
          ELSE IF IsNumber(currentPriceData.price)
          THEN view = "gift" /\ rendered.icon = "warning"
                   /\ rendered.label = "Last known value"
          ELSE view = "error"

\* The legacy page has rendered a sample taken from the historical series
\* whose last entry has no price: the 'error' icon and the placeholder.
C25_Witness ==
    /\ app = "legacy"
    /\ pc = "done"
    /\ view = "gift"
    /\ currentPriceData.isLastKnown
    /\ currentPriceData.price = Null
    /\ rendered.icon = "error"
    /\ rendered.label = "unavailable"

\* No price work has been started: loadAPIConfig has not asked for
\* data/apis.json, tryIndividualAPI has attempted no endpoint,
\* getLastKnownPrice has not asked for daily-prices.json again, and nothing
\* but the two requests of loadAppData is or has been in flight.
NoPriceWorkStarted ==
    /\ pc \in {"start", "loadAppData", "done"}
    /\ ld["apis"] = IdleLoader
    /\ ld["last"] = IdleLoader
    /\ apisFile = UnreadApis
    /\ apiConfigs = << >>
    /\ log = << >>
    /\ inflight \subseteq {"recipients", "daily"}
    /\ currentPriceData = NullSample

\* C26: in the modular page no price work is started before loadAppData has
\* returned the recipient map, and none at all when the recipient parameter
\* is absent or is not a key of that map: data/apis.json and the price
\* endpoints are never requested, and daily-prices.json is requested by
\* loadAppData only.
C26_NoPriceWorkWithoutRecipient ==
    (app = "modular" /\ (~RecipientsLoaded \/ recipientId = NoId
                                          \/ recipientId \notin recipients)) =>
        NoPriceWorkStarted
====
